---- MODULE Spec2Model ----
(***************************************************************************)
(* A model of schrott_id.hpp: the Base64 codec (namespace base64), the     *)
(* construction of a schrott_id instance, generate_permutation, and the    *)
(* encode / decode transformations.                                        *)
(*                                                                         *)
(* Characters are their codes (0..255), strings and byte vectors are       *)
(* sequences of such numbers.  A std::uint64_t is a sequence of four       *)
(* 16-bit limbs, least significant first, so that the full 64-bit range    *)
(* is covered.                                                             *)
(***************************************************************************)
EXTENDS Integers, Sequences, FiniteSets, TLC

(***************************************************************************)
(* Bounds of the model.                                                    *)
(***************************************************************************)
\* longest byte vector handed to base64::encode
MaxBytes == 4
\* longest free-form string handed to base64::decode
MaxStrLen == 5

(***************************************************************************)
(* Small helpers on sequences.                                             *)
(***************************************************************************)
Range(s) == {s[i] : i \in 1..Len(s)}

SeqsUpTo(S, n) == UNION {[1..k -> S] : k \in 0..n}

Repeat(x, n) == [i \in 1..n |-> x]

(***************************************************************************)
(* namespace base64                                                        *)
(***************************************************************************)
\* "ABCDEFGHIJKLMNOPQRSTUVWXYZabcdefghijklmnopqrstuvwxyz0123456789+/"
kEncodeLookup ==
    [i \in 1..64 |->
        IF i <= 26 THEN 64 + i
        ELSE IF i <= 52 THEN 70 + i
        ELSE IF i <= 62 THEN i - 5
        ELSE IF i = 63 THEN 43 ELSE 47]

\* '='
kPadCharacter == 61

\* kEncodeLookup[(temp & mask) >> shift] for the 6-bit field that starts at bit `shift`
Sextet(temp, shift) == kEncodeLookup[((temp \div (2 ^ shift)) % 64) + 1]

\* the loop body of encode: one full group of three bytes
EncodeGroup3(a, b, c) ==
    LET temp == a * 65536 + b * 256 + c
    IN  <<Sextet(temp, 18), Sextet(temp, 12), Sextet(temp, 6), Sextet(temp, 0)>>

\* case 1 of the switch: one trailing byte
EncodeTail1(a) ==
    LET temp == a * 65536
    IN  <<Sextet(temp, 18), Sextet(temp, 12), kPadCharacter, kPadCharacter>>

\* EncodeTail2 with the third character taken from bit 0 instead of bit 6
EncodeTail2_NoShift(a, b) ==
    LET temp == a * 65536 + b * 256
    IN  <<Sextet(temp, 18), Sextet(temp, 12), Sextet(temp, 0), kPadCharacter>>

\* case 2 of the switch: two trailing bytes
EncodeTail2(a, b) ==
    LET temp == a * 65536 + b * 256
    IN  <<Sextet(temp, 18), Sextet(temp, 12), Sextet(temp, 6), kPadCharacter>>

RECURSIVE EncodeGroups(_, _)
\* the for loop of encode, from group i (0-based) on
EncodeGroups(input, i) ==
    IF i >= Len(input) \div 3 THEN << >>
    ELSE EncodeGroup3(input[3 * i + 1], input[3 * i + 2], input[3 * i + 3])
         \o EncodeGroups(input, i + 1)

\* std::string base64::encode(const std::vector<byte>&)
B64Encode(input) ==
    LET n == Len(input)
        full == EncodeGroups(input, 0)
        at == 3 * (n \div 3)
    IN  CASE n % 3 = 1 -> full \o EncodeTail1(input[at + 1])
          [] n % 3 = 2 -> full \o EncodeTail2(input[at + 1], input[at + 2])
          [] OTHER -> full

B64Ok(bytes) == [ok |-> TRUE, bytes |-> bytes, what |-> "none"]

B64Throw(what) == [ok |-> FALSE, bytes |-> << >>, what |-> what]

\* temp <<= 6 on a std::uint32_t.  decode reads bits 0..23 of temp only
\* ((temp >> 16) & 0xFF is the highest read), so the model keeps bits 0..29 and
\* drops bits 30 and 31, which a later shift would push out unread.
Shl6(temp) == (temp % 16777216) * 64

\* (temp >> shift) & 0x000000FF
ByteAt(temp, shift) == (temp \div (2 ^ shift)) % 256

\* the if / else-if chain of decode on one character: the sextet it stands for,
\* 64 for the pad character, 65 for a character that matches no branch
DecodeClass(c) ==
    IF c >= 65 /\ c <= 90 THEN c - 65
    ELSE IF c >= 97 /\ c <= 122 THEN c - 71
    ELSE IF c >= 48 /\ c <= 57 THEN c + 4
    ELSE IF c = 43 THEN 62
    ELSE IF c = 47 THEN 63
    ELSE IF c = kPadCharacter THEN 64
    ELSE 65

RECURSIVE DecodeFrom(_, _, _, _)
\* the while / for loops of decode with the iterator at 1-based position `it`
DecodeFrom(input, it, temp, decoded) ==
    IF it > Len(input) THEN B64Ok(decoded)
    ELSE
        LET t == Shl6(temp)
            k == DecodeClass(input[it])
            left == Len(input) - it + 1
        IN  IF k = 65 THEN B64Throw("Invalid character in Base64")
            ELSE IF k = 64 THEN
                CASE left = 1 ->
                        B64Ok(decoded \o <<ByteAt(t, 16), ByteAt(t, 8)>>)
                  [] left = 2 ->
                        B64Ok(Append(decoded, ByteAt(t, 10)))
                  [] OTHER -> B64Throw("Invalid padding in Base64")
            ELSE
                LET t2 == t + k
                IN  IF it % 4 = 0
                    THEN DecodeFrom(input, it + 1, t2,
                            decoded \o <<ByteAt(t2, 16), ByteAt(t2, 8), ByteAt(t2, 0)>>)
                    ELSE DecodeFrom(input, it + 1, t2, decoded)

\* the padding counter decode computes before it reserves the output
DecodePadding(input) ==
    IF Len(input) = 0 THEN 0
    ELSE (IF input[Len(input)] = kPadCharacter THEN 1 ELSE 0)
         + (IF input[Len(input) - 1] = kPadCharacter THEN 1 ELSE 0)

\* std::vector<byte> base64::decode(const std::string&)
B64Decode(input) ==
    IF Len(input) % 4 # 0 THEN B64Throw("Invalid Base64 length")
    ELSE DecodeFrom(input, 1, 0, << >>)

(***************************************************************************)
(* std::uint64_t: four 16-bit limbs, least significant first.              *)
(***************************************************************************)
U64(l1, l2, l3, l4) == <<l1, l2, l3, l4>>

\* a small number as a std::uint64_t
U64Of(n) == U64(n % 65536, (n \div 65536) % 65536, 0, 0)

U64Zero == U64(0, 0, 0, 0)

\* 2^64 - 1
U64Max == U64(65535, 65535, 65535, 65535)

\* value + 1 on a std::uint64_t (wraps to 0 at 2^64 - 1)
U64Inc(v) ==
    LET c1 == (v[1] + 1) \div 65536
        c2 == (v[2] + c1) \div 65536
        c3 == (v[3] + c2) \div 65536
    IN  U64((v[1] + 1) % 65536, (v[2] + c1) % 65536,
            (v[3] + c2) % 65536, (v[4] + c3) % 65536)

\* value / b and value % b for a divisor 2 <= b <= 256
U64DivMod(v, b) ==
    LET r4 == v[4] % b
        c3 == r4 * 65536 + v[3]
        r3 == c3 % b
        c2 == r3 * 65536 + v[2]
        r2 == c2 % b
        c1 == r2 * 65536 + v[1]
    IN  [q |-> U64(c1 \div b, c2 \div b, c3 \div b, v[4] \div b), r |-> c1 % b]

\* value * b + d on a std::uint64_t (wraps modulo 2^64), b <= 256, d <= 255
U64MulAdd(v, b, d) ==
    LET c1 == v[1] * b + d
        c2 == v[2] * b + c1 \div 65536
        c3 == v[3] * b + c2 \div 65536
        c4 == v[4] * b + c3 \div 65536
    IN  U64(c1 % 65536, c2 % 65536, c3 % 65536, c4 % 65536)

RECURSIVE DigitsLE(_, _)
\* the digits the do-while loop of convert_to_base produces, in the order it produces
\* them (least significant first); the loop body runs at least once
DigitsLE(v, b) ==
    LET dm == U64DivMod(v, b)
    IN  IF dm.q = U64Zero THEN <<dm.r>>
        ELSE <<dm.r>> \o DigitsLE(dm.q, b)

Reverse(s) == [i \in 1..Len(s) |-> s[Len(s) + 1 - i]]

(***************************************************************************)
(* The digit count of convert_to_base:                                     *)
(*     static_cast<int>(std::ceil(std::log(value + 1) / std::log(size)))   *)
(* It is evaluated in double precision.  The model gives the exact value   *)
(* ceil(log_b x) and, where x is so close to a power of b that the         *)
(* rounding of the conversion to double, of the two logarithms and of the  *)
(* quotient can move the quotient across an integer, both neighbours.      *)
(***************************************************************************)
\* 2^45: x lies within rounding distance of a power p of b when |x - p| * 2^45 < p
RoundingReach == U64(0, 0, 8192, 0)

\* the number of leading base-b digits that must agree with those of the power
ZoneDigits(b) == Len(DigitsLE(RoundingReach, b)) - 1

\* x is a power of b: digits 1, 0, ..., 0
IsPowerOf(db) == db[1] = 1 /\ \A i \in 2..Len(db) : db[i] = 0

\* x lies just above the power b^(n-1): digits 1, 0, ..., 0, then anything
JustAbovePower(db, z) ==
    /\ Len(db) >= z + 1
    /\ db[1] = 1
    /\ \A i \in 2..(z + 1) : db[i] = 0

\* x lies just below the power b^n: digits b-1, ..., b-1, then anything
JustBelowPower(db, b, z) ==
    /\ Len(db) >= z
    /\ \A i \in 1..z : db[i] = b - 1

\* the values std::ceil(std::log(x) / std::log(b)) can take for x >= 1
FloatCeilLog(x, b) ==
    LET db == Reverse(DigitsLE(x, b))
        n == Len(db)
        z == ZoneDigits(b)
    IN  IF IsPowerOf(db)
        THEN (IF n = 1 THEN {0} ELSE {n - 1, n})
        ELSE {n}
             \cup (IF JustAbovePower(db, z) THEN {n - 1} ELSE {})
             \cup (IF JustBelowPower(db, b, z) THEN {n + 1} ELSE {})

\* static_cast<int> of minus infinity (std::log(0) when value + 1 wraps to 0) is
\* undefined: x86 and ARM conversions give INT_MIN, a software conversion may give 0
IntMin == -2147483647 - 1

CastOfMinusInfinity == {IntMin, 0}

\* the values the first argument of std::max can take in convert_to_base
DigitCounts(value, b) ==
    LET x == U64Inc(value)
    IN  IF x = U64Zero THEN CastOfMinusInfinity ELSE FloatCeilLog(x, b)

Max(a, b) == IF a >= b THEN a ELSE b

\* the buffer length with std::max taken against 0 in place of min_length_
BufferLengths_NoClamp(value, b, min_length) ==
    {Max(n, 0) : n \in DigitCounts(value, b)}

\* the lengths convert_to_base can give its buffer
BufferLengths(value, b, min_length) ==
    {Max(n, min_length) : n \in DigitCounts(value, b)}

\* the buffer convert_to_base leaves behind for a buffer length len: buf[--i] is
\* written once per digit, from index len - 1 downwards; a write whose index has
\* run below 0 (i wraps around) lands outside the buffer
ConvertToBase(value, b, len) ==
    LET d == DigitsLE(value, b)
        k == Len(d)
    IN  [buf |-> [i \in 1..len |-> IF len - i + 1 <= k THEN d[len - i + 1] ELSE 0],
         oob |-> IF k > len THEN k - len ELSE 0]

RECURSIVE ConvertToValueLoop(_, _, _)
\* the loop of convert_to_value; st holds the 1-based index i and the value so far
ConvertToValueLoop(buf, b, st) ==
    IF st.i > Len(buf) THEN st.value
    ELSE ConvertToValueLoop(buf, b,
            [i |-> st.i + 1,
             value |-> IF st.i > 1 THEN U64MulAdd(st.value, b, buf[st.i])
                       ELSE U64MulAdd(st.value, 1, buf[st.i])])

\* std::uint64_t convert_to_value(const std::vector<byte>&)
ConvertToValue(buf, b) == ConvertToValueLoop(buf, b, [i |-> 1, value |-> U64Zero])

\* std::string convert_to_string(const std::vector<byte>&)
ConvertToString(buf, alphabet) == [i \in 1..Len(buf) |-> alphabet[buf[i] + 1]]

\* inverse_alphabet_ as the constructor fills it: character -> index
InverseAlphabet(alphabet) ==
    [c \in Range(alphabet) |-> CHOOSE i \in 0..(Len(alphabet) - 1) : alphabet[i + 1] = c]

\* convert_from_base that lets a character it does not find stand for digit 0
ConvertFromBase_Lenient(text, inverse_alphabet) ==
    [ok |-> TRUE,
     buf |-> [i \in 1..Len(text) |->
                IF text[i] \in DOMAIN inverse_alphabet
                THEN inverse_alphabet[text[i]] ELSE 0]]

\* std::vector<byte> convert_from_base(const std::string&): the loop throws at the
\* first character inverse_alphabet_.find does not find, and fills buf[i] otherwise
ConvertFromBase(text, inverse_alphabet) ==
    IF \E i \in 1..Len(text) : text[i] \notin DOMAIN inverse_alphabet
    THEN [ok |-> FALSE, buf |-> << >>]
    ELSE [ok |-> TRUE, buf |-> [i \in 1..Len(text) |-> inverse_alphabet[text[i]]]]

\* void permute_forward(std::vector<byte>&)
PermuteForward(buf, permutation) == [i \in 1..Len(buf) |-> permutation[buf[i] + 1]]

\* void permute_backward(std::vector<byte>&)
PermuteBackward(buf, inverse_permutation) ==
    [i \in 1..Len(buf) |-> inverse_permutation[buf[i] + 1]]

\* void rotate_left(std::vector<byte>&): the first element moves to the end
RotateLeft(buf) ==
    IF Len(buf) = 0 THEN buf
    ELSE [i \in 1..Len(buf) |-> IF i = Len(buf) THEN buf[1] ELSE buf[i + 1]]

\* void rotate_right(std::vector<byte>&): the last element moves to the front
RotateRight(buf) ==
    IF Len(buf) = 0 THEN buf
    ELSE [i \in 1..Len(buf) |-> IF i = 1 THEN buf[Len(buf)] ELSE buf[i - 1]]

RECURSIVE CascadeForwardFrom(_, _, _, _)
\* the loop of cascade_forward: last is the new value of the digit before
CascadeForwardFrom(buf, b, i, last) ==
    IF i > Len(buf) THEN buf
    ELSE LET d == (buf[i] + last) % b
         IN  CascadeForwardFrom([buf EXCEPT ![i] = d], b, i + 1, d)

\* void cascade_forward(std::vector<byte>&)
CascadeForward(buf, b) == CascadeForwardFrom(buf, b, 1, 0)

RECURSIVE CascadeBackwardFrom(_, _, _, _)
\* the loop of cascade_backward: last is the old value of the digit before
CascadeBackwardFrom(buf, b, i, last) ==
    IF i > Len(buf) THEN buf
    ELSE LET t == buf[i]
         IN  CascadeBackwardFrom([buf EXCEPT ![i] = (buf[i] + b - last) % b],
                                 b, i + 1, t)

RECURSIVE CascadeBackwardNewLastFrom(_, _, _, _)
CascadeBackwardNewLastFrom(buf, b, i, last) ==
    IF i > Len(buf) THEN buf
    ELSE LET d == (buf[i] + b - last) % b
         IN  CascadeBackwardNewLastFrom([buf EXCEPT ![i] = d], b, i + 1, d)

\* cascade_backward with last taken from the new value of the digit, as
\* cascade_forward does, instead of from the value saved in t
CascadeBackward_NewLast(buf, b) == CascadeBackwardNewLastFrom(buf, b, 1, 0)

\* void cascade_backward(std::vector<byte>&)
CascadeBackward(buf, b) == CascadeBackwardFrom(buf, b, 1, 0)

\* util::is_unique
IsUnique(s) == Cardinality(Range(s)) = Len(s)

\* inverse_permutation_ as the constructor fills it: inverse[permutation[i]] = i
InversePermutation(permutation) ==
    [j \in 1..Len(permutation) |->
        CHOOSE i \in 0..(Len(permutation) - 1) : permutation[i + 1] = j - 1]

(***************************************************************************)
(* State.                                                                  *)
(***************************************************************************)
VARIABLES
    b64_pc,               \* position of the Base64 scenario
    b64_input,            \* the byte vector given to base64::encode
    b64_encoded,          \* what base64::encode returned
    b64_text,             \* the string given to base64::decode
    b64_result,           \* what base64::decode returned or threw
    gen_pc,               \* position inside generate_permutation
    gen_alphabet,         \* its argument
    gen_permutation,      \* its local vector `permutation`
    gen_i,                \* the counter of its shuffle loop
    gen_result,           \* the string it returned, or what it threw
    args,                 \* the arguments of the schrott_id constructor
    ctor_pc,              \* position inside the constructor
    ctor_error,           \* what the constructor threw
    alphabet_,            \* schrott_id::alphabet_
    inverse_alphabet_,    \* schrott_id::inverse_alphabet_
    permutation_,         \* schrott_id::permutation_
    inverse_permutation_, \* schrott_id::inverse_permutation_
    min_length_,          \* schrott_id::min_length_
    calls                 \* per caller: the encode or decode call it is running

b64vars == <<b64_pc, b64_input, b64_encoded, b64_text, b64_result>>

genvars == <<gen_pc, gen_alphabet, gen_permutation, gen_i, gen_result>>

ctorvars == <<args, ctor_pc, ctor_error>>

instance ==
    <<alphabet_, inverse_alphabet_, permutation_, inverse_permutation_, min_length_>>

vars == <<b64vars, genvars, ctorvars, instance, calls>>

(***************************************************************************)
(* More bounds of the model.                                               *)
(***************************************************************************)
\* largest alphabet handed to generate_permutation (besides the over-long one)
MaxGenAlphabet == 5
\* largest alphabet handed to the constructor (besides the over-long one)
MaxAlphabet == 3
\* largest min_length handed to the constructor
MaxMinLength == 2
\* encode is called with every value 0..MaxValue (and with the large values below)
MaxValue == 5
\* longest free-form string handed to decode (besides the long one)
MaxTextLen == 2
\* length of the long string handed to decode: more base-2 digits than 64 bits hold
LongTextLen == 66

Callers == {1, 2}

\* "A", "AB", "ABC", ...
AlphabetOf(n) == [i \in 1..n |-> 64 + i]

\* the same with the first character again in the last position
AlphabetWithDuplicate(n) == [i \in 1..n |-> IF i = n THEN 65 ELSE 64 + i]

\* std::string(257, 'A') of the test "Alphabet too long"
LongAlphabet == Repeat(65, 257)

NoArgs == [alphabet |-> << >>, permutation |-> << >>, min_length |-> 0]

IdleCall ==
    [pc |-> "idle", op |-> "none", value |-> U64Zero, text |-> << >>,
     buf |-> << >>, i |-> 0, ops |-> << >>, oob |-> 0, chained |-> FALSE,
     encoded |-> << >>, decoded |-> U64Zero]

B64Off ==
    /\ b64_pc = "off"
    /\ b64_input = << >>
    /\ b64_encoded = << >>
    /\ b64_text = << >>
    /\ b64_result = B64Ok(<< >>)

GenOff ==
    /\ gen_pc = "off"
    /\ gen_alphabet = << >>
    /\ gen_permutation = << >>
    /\ gen_i = 0
    /\ gen_result = << >>

CipherOff ==
    /\ args = NoArgs
    /\ ctor_pc = "off"
    /\ ctor_error = "none"
    /\ alphabet_ = << >>
    /\ inverse_alphabet_ = << >>
    /\ permutation_ = << >>
    /\ inverse_permutation_ = << >>
    /\ min_length_ = 0
    /\ calls = [c \in Callers |-> IdleCall]

(***************************************************************************)
(* The Base64 scenario: encode a byte vector and decode the result, or     *)
(* decode a string that did not come from encode.                          *)
(***************************************************************************)
\* byte values the scenario draws from
ByteSamples == {0, 1, 63, 128, 255}

\* characters the scenario draws from: 'A', 'Q', '/', '=', '$'
CharSamples == {65, 81, 47, 61, 36}

\* characters of the four-character groups: 'A', '=', '$'
GroupChars == {65, 61, 36}

TwoGroups == [1..8 -> GroupChars]

B64Texts == SeqsUpTo(CharSamples, MaxStrLen) \cup TwoGroups

InitB64 ==
    /\ b64_pc \in {"encode", "decode"}
    /\ IF b64_pc = "encode"
       THEN b64_input \in SeqsUpTo(ByteSamples, MaxBytes) /\ b64_text = << >>
       ELSE b64_input = << >> /\ b64_text \in B64Texts
    /\ b64_encoded = << >>
    /\ b64_result = B64Ok(<< >>)
    /\ GenOff
    /\ CipherOff

B64CallEncode ==
    /\ b64_pc = "encode"
    /\ b64_encoded' = B64Encode(b64_input)
    /\ b64_pc' = "encoded"
    /\ UNCHANGED <<b64_input, b64_text, b64_result>>
    /\ UNCHANGED <<genvars, ctorvars, instance, calls>>

B64DecodeEncoded ==
    /\ b64_pc = "encoded"
    /\ b64_text' = b64_encoded
    /\ b64_result' = B64Decode(b64_encoded)
    /\ b64_pc' = "roundtrip"
    /\ UNCHANGED <<b64_input, b64_encoded>>
    /\ UNCHANGED <<genvars, ctorvars, instance, calls>>

B64CallDecode ==
    /\ b64_pc = "decode"
    /\ b64_result' = B64Decode(b64_text)
    /\ b64_pc' = "decoded"
    /\ UNCHANGED <<b64_input, b64_encoded, b64_text>>
    /\ UNCHANGED <<genvars, ctorvars, instance, calls>>

NextB64 == B64CallEncode \/ B64DecodeEncoded \/ B64CallDecode

SpecB64 == InitB64 /\ [][NextB64]_vars

(***************************************************************************)
(* schrott_id::generate_permutation                                        *)
(***************************************************************************)
GenAlphabets ==
    {AlphabetOf(n) : n \in 0..MaxGenAlphabet}
    \cup {AlphabetWithDuplicate(n) : n \in 2..MaxGenAlphabet}
    \cup {LongAlphabet}

InitGen ==
    /\ gen_pc = "check_size"
    /\ gen_alphabet \in GenAlphabets
    /\ gen_permutation = << >>
    /\ gen_i = 0
    /\ gen_result = << >>
    /\ B64Off
    /\ CipherOff

\* alphabet.size() <= 1 || alphabet.size() > 256
SizeOutOfRange(alphabet) == Len(alphabet) <= 1 \/ Len(alphabet) > 256

GenCheckSize ==
    /\ gen_pc = "check_size"
    /\ IF SizeOutOfRange(gen_alphabet)
       THEN /\ gen_pc' = "thrown"
            /\ gen_result' = "Alphabet must have 2 to 256 characters"
       ELSE /\ gen_pc' = "check_unique"
            /\ UNCHANGED gen_result
    /\ UNCHANGED <<gen_alphabet, gen_permutation, gen_i>>
    /\ UNCHANGED <<b64vars, ctorvars, instance, calls>>

\* the first loop of generate_permutation: permutation[i] = i
Identity(n) == [i \in 1..n |-> i - 1]

GenCheckUnique ==
    /\ gen_pc = "check_unique"
    /\ IF ~IsUnique(gen_alphabet)
       THEN /\ gen_pc' = "thrown"
            /\ gen_result' = "Alphabet must have unique characters"
            /\ UNCHANGED gen_permutation
       ELSE /\ gen_pc' = "shuffle"
            /\ gen_permutation' = Identity(Len(gen_alphabet))
            /\ UNCHANGED gen_result
    /\ UNCHANGED <<gen_alphabet, gen_i>>
    /\ UNCHANGED <<b64vars, ctorvars, instance, calls>>

\* the swap with its second half forgotten: permutation[i] = permutation[p]
Swap_Overwrite(permutation, i, p) ==
    [permutation EXCEPT ![i + 1] = permutation[p + 1]]

\* std::swap(permutation[i], permutation[p]) for 0-based i and p
Swap(permutation, i, p) ==
    [permutation EXCEPT ![i + 1] = permutation[p + 1], ![p + 1] = permutation[i + 1]]

\* one pass of the second loop: p is what distribution(rd) returned
GenSwap ==
    /\ gen_pc = "shuffle"
    /\ gen_i < Len(gen_permutation)
    /\ \E p \in 0..(Len(gen_alphabet) - 1) :
            gen_permutation' = Swap(gen_permutation, gen_i, p)
    /\ gen_i' = gen_i + 1
    /\ UNCHANGED <<gen_pc, gen_alphabet, gen_result>>
    /\ UNCHANGED <<b64vars, ctorvars, instance, calls>>

GenReturn ==
    /\ gen_pc = "shuffle"
    /\ gen_i >= Len(gen_permutation)
    /\ gen_result' = B64Encode(gen_permutation)
    /\ gen_pc' = "returned"
    /\ UNCHANGED <<gen_alphabet, gen_permutation, gen_i>>
    /\ UNCHANGED <<b64vars, ctorvars, instance, calls>>

NextGen == GenCheckSize \/ GenCheckUnique \/ GenSwap \/ GenReturn

SpecGen == InitGen /\ [][NextGen]_vars

(***************************************************************************)
(* The schrott_id constructor.  The member initialisers have run when the  *)
(* body starts: alphabet_ holds the alphabet, min_length_ the minimum      *)
(* length.  A throw destroys the members: no instance comes to exist.      *)
(***************************************************************************)
\* Base64 strings that are no output of base64::encode: "AA", "A$AA", "=AAA", "AA=A"
OddPermutations ==
    {<<65, 65>>, <<65, 36, 65, 65>>, <<61, 65, 65, 65>>, <<65, 65, 61, 65>>}

CtorAlphabets ==
    {AlphabetOf(n) : n \in 0..MaxAlphabet}
    \cup {AlphabetWithDuplicate(n) : n \in 2..MaxAlphabet}
    \cup {LongAlphabet}

CtorPermutations ==
    {B64Encode(p) : p \in SeqsUpTo(0..MaxAlphabet, MaxAlphabet)} \cup OddPermutations

\* rejected lengths, the shortest accepted one and the longest of the model
CtorMinLengths == {-1, 0, 1, MaxMinLength}

InitCtor ==
    /\ args \in [alphabet : CtorAlphabets,
                 permutation : CtorPermutations,
                 min_length : CtorMinLengths]
    /\ ctor_pc = "check_size"
    /\ ctor_error = "none"
    /\ alphabet_ = args.alphabet
    /\ min_length_ = args.min_length
    /\ inverse_alphabet_ = << >>
    /\ permutation_ = << >>
    /\ inverse_permutation_ = << >>
    /\ calls = [c \in Callers |-> IdleCall]
    /\ B64Off
    /\ GenOff

\* throw std::invalid_argument(what): the members are destroyed with the object
CtorThrow(what) ==
    /\ ctor_pc' = "thrown"
    /\ ctor_error' = what
    /\ alphabet_' = << >>
    /\ inverse_alphabet_' = << >>
    /\ permutation_' = << >>
    /\ inverse_permutation_' = << >>
    /\ min_length_' = 0
    /\ UNCHANGED <<args, calls, b64vars, genvars>>

\* the constructor goes on to its next statement
CtorGoto(pc) ==
    /\ ctor_pc' = pc
    /\ UNCHANGED <<args, ctor_error, calls, b64vars, genvars>>

CtorCheckSize ==
    /\ ctor_pc = "check_size"
    /\ IF SizeOutOfRange(alphabet_)
       THEN CtorThrow("Alphabet must have 2 to 256 characters")
       ELSE CtorGoto("check_unique") /\ UNCHANGED instance

\* the uniqueness check with the min_length check moved in front of it
CtorCheckUnique_MinLengthFirst ==
    /\ ctor_pc = "check_unique"
    /\ IF min_length_ <= 0
       THEN CtorThrow("min_length must be greater than 0")
       ELSE IF ~IsUnique(alphabet_)
            THEN CtorThrow("Alphabet must have unique characters")
            ELSE CtorGoto("check_min_length") /\ UNCHANGED instance

CtorCheckUnique ==
    /\ ctor_pc = "check_unique"
    /\ IF ~IsUnique(alphabet_)
       THEN CtorThrow("Alphabet must have unique characters")
       ELSE CtorGoto("check_min_length") /\ UNCHANGED instance

CtorCheckMinLength ==
    /\ ctor_pc = "check_min_length"
    /\ IF min_length_ <= 0
       THEN CtorThrow("min_length must be greater than 0")
       ELSE CtorGoto("inverse_alphabet") /\ UNCHANGED instance

CtorBuildInverseAlphabet ==
    /\ ctor_pc = "inverse_alphabet"
    /\ inverse_alphabet_' = InverseAlphabet(alphabet_)
    /\ CtorGoto("decode_permutation")
    /\ UNCHANGED <<alphabet_, permutation_, inverse_permutation_, min_length_>>

CtorDecodePermutation ==
    /\ ctor_pc = "decode_permutation"
    /\ LET r == B64Decode(args.permutation)
       IN  IF ~r.ok
           THEN CtorThrow(r.what)
           ELSE /\ permutation_' = r.bytes
                /\ CtorGoto("check_length")
                /\ UNCHANGED <<alphabet_, inverse_alphabet_, inverse_permutation_,
                               min_length_>>

CtorCheckLength ==
    /\ ctor_pc = "check_length"
    /\ IF Len(permutation_) # Len(alphabet_)
       THEN CtorThrow("Permutation length must be equal to alphabet length")
       ELSE CtorGoto("check_permutation_unique") /\ UNCHANGED instance

CtorCheckPermutationUnique ==
    /\ ctor_pc = "check_permutation_unique"
    /\ IF ~IsUnique(permutation_)
       THEN CtorThrow("Invalid permutation. All positions must be unique.")
       ELSE CtorGoto("check_indices") /\ UNCHANGED instance

\* *std::min_element(...) and *std::max_element(...) of a non-empty vector
MinElement(s) == CHOOSE x \in Range(s) : \A y \in Range(s) : x <= y

MaxElement(s) == CHOOSE x \in Range(s) : \A y \in Range(s) : x >= y

CtorCheckIndices ==
    /\ ctor_pc = "check_indices"
    /\ IF MinElement(permutation_) # 0 \/ MaxElement(permutation_) # Len(alphabet_) - 1
       THEN CtorThrow("Invalid permutation. Invalid indices for used alphabet.")
       ELSE CtorGoto("inverse_permutation") /\ UNCHANGED instance

CtorBuildInversePermutation ==
    /\ ctor_pc = "inverse_permutation"
    /\ inverse_permutation_' = InversePermutation(permutation_)
    /\ CtorGoto("ready")
    /\ UNCHANGED <<alphabet_, inverse_alphabet_, permutation_, min_length_>>

Construct ==
    \/ CtorCheckSize
    \/ CtorCheckUnique
    \/ CtorCheckMinLength
    \/ CtorBuildInverseAlphabet
    \/ CtorDecodePermutation
    \/ CtorCheckLength
    \/ CtorCheckPermutationUnique
    \/ CtorCheckIndices
    \/ CtorBuildInversePermutation

(***************************************************************************)
(* encode and decode, one step per statement, run by caller c on the       *)
(* constructed instance.                                                   *)
(***************************************************************************)
\* 2^53, 2^64 - 2 and 2^64 - 1
LargeValues == {U64(0, 0, 0, 32), U64(65534, 65535, 65535, 65535), U64Max}

EncodeValues == {U64Of(n) : n \in 0..MaxValue} \cup LargeValues

\* '$'
ForeignChar == 36

\* strings for decode: short ones over the alphabet and '$', and one long one
DecodeTexts(alphabet) ==
    SeqsUpTo(Range(alphabet) \cup {ForeignChar}, MaxTextLen)
    \cup {Repeat(alphabet[Len(alphabet)], LongTextLen)}

\* the loop bound without the factor: i < buf.size()
LoopBound_Once(buf) == Len(buf)

\* the bound of the for loops of encode and decode: i < buf.size() * 3
LoopBound(buf) == Len(buf) * 3

Base == Len(alphabet_)

\* caller c's call record becomes r
SetCall(c, r) ==
    /\ calls' = [calls EXCEPT ![c] = r]
    /\ UNCHANGED <<b64vars, genvars, ctorvars, instance>>

\* the first step of the loop body; ops, the steps of the current pass, starts anew
LoopFirstStep(c, from, to, op, buf) ==
    /\ calls[c].pc = from
    /\ SetCall(c, [calls[c] EXCEPT !.pc = to, !.buf = buf, !.ops = <<op>>])

\* the transformation step `op` of the loop body: pc from -> pc to, buf replaced
LoopStep(c, from, to, op, buf) ==
    /\ calls[c].pc = from
    /\ SetCall(c, [calls[c] EXCEPT !.pc = to, !.buf = buf,
                                   !.ops = Append(calls[c].ops, op)])

\* the last step of the loop body, ++i and the loop test
LoopLastStep(c, from, first, after, op, buf) ==
    /\ calls[c].pc = from
    /\ SetCall(c, [calls[c] EXCEPT
            !.pc = IF calls[c].i + 1 < LoopBound(buf) THEN first ELSE after,
            !.buf = buf,
            !.i = calls[c].i + 1,
            !.ops = Append(calls[c].ops, op)])

\* a caller calls encode(value)
EncodeCall(c, values) ==
    /\ ctor_pc = "ready"
    /\ calls[c].pc = "idle"
    /\ \E v \in values :
            SetCall(c, [IdleCall EXCEPT !.pc = "convert_to_base", !.op = "encode",
                                        !.value = v])

\* auto buf = convert_to_base(value); and the first loop test
EncodeConvertToBase(c) ==
    /\ calls[c].pc = "convert_to_base"
    /\ \E len \in BufferLengths(calls[c].value, Base, min_length_) :
            LET cb == ConvertToBase(calls[c].value, Base, len)
            IN  SetCall(c, [calls[c] EXCEPT
                    !.pc = IF 0 < LoopBound(cb.buf) THEN "rotate_left_1"
                           ELSE "convert_to_string",
                    !.buf = cb.buf,
                    !.oob = cb.oob,
                    !.i = 0])

EncodeRotateLeft1(c) ==
    LoopFirstStep(c, "rotate_left_1", "permute_forward", "rotate_left",
                  RotateLeft(calls[c].buf))

EncodePermuteForward(c) ==
    LoopStep(c, "permute_forward", "rotate_left_2", "permute_forward",
             PermuteForward(calls[c].buf, permutation_))

EncodeRotateLeft2(c) ==
    LoopStep(c, "rotate_left_2", "cascade_forward", "rotate_left",
             RotateLeft(calls[c].buf))

EncodeCascadeForward(c) ==
    LoopStep(c, "cascade_forward", "rotate_left_3", "cascade_forward",
             CascadeForward(calls[c].buf, Base))

EncodeRotateLeft3(c) ==
    LoopLastStep(c, "rotate_left_3", "rotate_left_1", "convert_to_string",
                 "rotate_left", RotateLeft(calls[c].buf))

\* return convert_to_string(buf);
EncodeConvertToString(c) ==
    /\ calls[c].pc = "convert_to_string"
    /\ SetCall(c, [calls[c] EXCEPT !.pc = "encoded",
                                   !.encoded = ConvertToString(calls[c].buf, alphabet_)])

\* convert_to_base wrote below the start of the heap block of buf: the allocator may
\* find its bookkeeping overwritten when buf is freed, and abort the process
EncodeAbort(c) ==
    /\ calls[c].pc = "convert_to_string"
    /\ calls[c].oob > 0
    /\ SetCall(c, [calls[c] EXCEPT !.pc = "aborted"])

\* a caller calls decode(text)
DecodeCall(c, texts) ==
    /\ ctor_pc = "ready"
    /\ calls[c].pc = "idle"
    /\ \E t \in texts :
            SetCall(c, [IdleCall EXCEPT !.pc = "convert_from_base", !.op = "decode",
                                        !.text = t])

\* a caller calls decode on the string its encode call returned
DecodeEncoded(c) ==
    /\ calls[c].pc = "encoded"
    /\ SetCall(c, [calls[c] EXCEPT !.pc = "convert_from_base", !.op = "decode",
                                   !.text = calls[c].encoded, !.chained = TRUE,
                                   !.buf = << >>, !.i = 0, !.ops = << >>])

\* auto buf = convert_from_base(value); and the first loop test
DecodeConvertFromBase(c) ==
    /\ calls[c].pc = "convert_from_base"
    /\ LET r == ConvertFromBase(calls[c].text, inverse_alphabet_)
       IN  IF ~r.ok
           THEN SetCall(c, [calls[c] EXCEPT !.pc = "thrown"])
           ELSE SetCall(c, [calls[c] EXCEPT
                    !.pc = IF 0 < LoopBound(r.buf) THEN "rotate_right_1"
                           ELSE "convert_to_value",
                    !.buf = r.buf,
                    !.i = 0])

DecodeRotateRight1(c) ==
    LoopFirstStep(c, "rotate_right_1", "cascade_backward", "rotate_right",
                  RotateRight(calls[c].buf))

DecodeCascadeBackward(c) ==
    LoopStep(c, "cascade_backward", "rotate_right_2", "cascade_backward",
             CascadeBackward(calls[c].buf, Base))

DecodeRotateRight2(c) ==
    LoopStep(c, "rotate_right_2", "permute_backward", "rotate_right",
             RotateRight(calls[c].buf))

DecodePermuteBackward(c) ==
    LoopStep(c, "permute_backward", "rotate_right_3", "permute_backward",
             PermuteBackward(calls[c].buf, inverse_permutation_))

DecodeRotateRight3(c) ==
    LoopLastStep(c, "rotate_right_3", "rotate_right_1", "convert_to_value",
                 "rotate_right", RotateRight(calls[c].buf))

\* return convert_to_value(buf);
DecodeConvertToValue(c) ==
    /\ calls[c].pc = "convert_to_value"
    /\ SetCall(c, [calls[c] EXCEPT !.pc = "decoded",
                                   !.decoded = ConvertToValue(calls[c].buf, Base)])

EncodeSteps(c) ==
    \/ EncodeConvertToBase(c)
    \/ EncodeRotateLeft1(c)
    \/ EncodePermuteForward(c)
    \/ EncodeRotateLeft2(c)
    \/ EncodeCascadeForward(c)
    \/ EncodeRotateLeft3(c)
    \/ EncodeConvertToString(c)
    \/ EncodeAbort(c)

DecodeSteps(c) ==
    \/ DecodeConvertFromBase(c)
    \/ DecodeRotateRight1(c)
    \/ DecodeCascadeBackward(c)
    \/ DecodeRotateRight2(c)
    \/ DecodePermuteBackward(c)
    \/ DecodeRotateRight3(c)
    \/ DecodeConvertToValue(c)

(***************************************************************************)
(* Construction, then one caller that encodes a value and decodes the      *)
(* result, or decodes a string.                                            *)
(***************************************************************************)
Init == InitCtor

Next ==
    \/ Construct
    \/ EncodeCall(1, EncodeValues)
    \/ EncodeSteps(1)
    \/ DecodeCall(1, DecodeTexts(alphabet_))
    \/ DecodeEncoded(1)
    \/ DecodeSteps(1)

Spec == Init /\ [][Next]_vars

(***************************************************************************)
(* Two callers share one instance that was fully constructed before: every *)
(* interleaving of the steps of their encode and decode calls.             *)
(***************************************************************************)
\* largest alphabet of the shared instance
MaxSharedAlphabet == 2
\* largest min_length of the shared instance
MaxSharedMinLength == 1
\* longest string the callers hand to decode
MaxSharedTextLen == 2

\* the state a completed constructor leaves behind for arguments a
Constructed(a) ==
    LET permutation == B64Decode(a.permutation).bytes
    IN  /\ args = a
        /\ ctor_pc = "ready"
        /\ ctor_error = "none"
        /\ alphabet_ = a.alphabet
        /\ min_length_ = a.min_length
        /\ inverse_alphabet_ = InverseAlphabet(a.alphabet)
        /\ permutation_ = permutation
        /\ inverse_permutation_ = InversePermutation(permutation)

\* permutations of 0..n-1, as generate_permutation serialises them
PermutationStrings(n) ==
    {B64Encode(q) : q \in {f \in [1..n -> 0..(n - 1)] : IsUnique(f)}}

SharedArgs ==
    UNION {[alphabet : {AlphabetOf(n)},
            permutation : PermutationStrings(n),
            min_length : 1..MaxSharedMinLength] : n \in 2..MaxSharedAlphabet}

\* 0, 5 and 2^64 - 1
SharedValues == {U64Of(0), U64Of(5), U64Max}

SharedTexts == SeqsUpTo(Range(alphabet_) \cup {ForeignChar}, MaxSharedTextLen)

InitShared ==
    /\ \E a \in SharedArgs : Constructed(a)
    /\ calls = [c \in Callers |-> IdleCall]
    /\ B64Off
    /\ GenOff

NextShared ==
    \E c \in Callers :
        \/ EncodeCall(c, SharedValues)
        \/ EncodeSteps(c)
        \/ DecodeCall(c, SharedTexts)
        \/ DecodeSteps(c)

SpecShared == InitShared /\ [][NextShared]_vars

(***************************************************************************)
(* Claims about the Base64 codec.                                          *)
(***************************************************************************)
\* 4 * ceil(n / 3)
EncodedLength(n) == 4 * ((n + 2) \div 3)

\* C5: Base64 round trip.  For every byte vector b, of any length (0, and lengths
\* congruent to 1 and 2 modulo 3 included), base64::encode(b) has 4 * ceil(len(b) / 3)
\* characters and base64::decode of it returns exactly b.
C5_Base64RoundTrip ==
    /\ b64_pc \in {"encoded", "roundtrip"} =>
            Len(b64_encoded) = EncodedLength(Len(b64_input))
    /\ b64_pc = "roundtrip" =>
            /\ b64_result.ok
            /\ b64_result.bytes = b64_input

\* four bytes (one full group and a trailing group of one byte), 128 and 255 among
\* them, went round
C5_Witness ==
    /\ b64_pc = "roundtrip"
    /\ Len(b64_input) = 4
    /\ {128, 255} \subseteq Range(b64_input)
    /\ b64_result.bytes = b64_input

\* the Base64 alphabet of the claim: A-Z, a-z, 0-9, '+', '/' and the pad '='
IsBase64Char(c) ==
    \/ c \in 65..90
    \/ c \in 97..122
    \/ c \in 48..57
    \/ c \in {43, 47, 61}

\* '=' stands somewhere other than the final one or two positions
PadMisplaced(text) ==
    \E i \in 1..Len(text) : text[i] = 61 /\ i < Len(text) - 1

\* the inputs C6 says decode rejects
MustReject(text) ==
    \/ Len(text) % 4 # 0
    \/ \E i \in 1..Len(text) : ~IsBase64Char(text[i])
    \/ PadMisplaced(text)

\* C6 (as claimed): base64::decode fails with InvalidFormat, and returns no bytes, for
\* every input whose length is not a multiple of 4, for every input that holds a
\* character outside the Base64 alphabet, and for every input with '=' anywhere but in
\* the final one or two positions.
C6_DecodeRejects ==
    (b64_pc = "decoded" /\ MustReject(b64_text)) =>
        (~b64_result.ok /\ b64_result.bytes = << >>)

\* C7 (as claimed): for every input base64::decode accepts, it returns exactly
\* (length / 4) * 3 - padding_count bytes, padding_count being the number of '=' in the
\* last two positions of the input.
C7_DecodeOutputSize ==
    (b64_pc = "decoded" /\ b64_result.ok) =>
        Len(b64_result.bytes) = (Len(b64_text) \div 4) * 3 - DecodePadding(b64_text)

(***************************************************************************)
(* Claims about generate_permutation.                                      *)
(***************************************************************************)
\* s is a complete permutation of 0..n-1
IsPermutationOf(s, n) == Len(s) = n /\ Range(s) = 0..(n - 1)

\* C3: permutation validity.  For every alphabet of distinct characters and every
\* sequence of random indices, the vector is a permutation of [0, size) after every
\* swap of the shuffle, and the returned string Base64-decodes to size bytes that are
\* unique, with minimum 0 and maximum size - 1.
C3_PermutationValid ==
    /\ gen_pc = "shuffle" => IsPermutationOf(gen_permutation, Len(gen_alphabet))
    /\ gen_pc = "returned" =>
            LET d == B64Decode(gen_result)
            IN  /\ d.ok
                /\ Len(d.bytes) = Len(gen_alphabet)
                /\ IsUnique(d.bytes)
                /\ MinElement(d.bytes) = 0
                /\ MaxElement(d.bytes) = Len(gen_alphabet) - 1

\* the largest alphabet was shuffled into the reverse order and returned
C3_Witness ==
    /\ gen_pc = "returned"
    /\ Len(gen_alphabet) = MaxGenAlphabet
    /\ gen_permutation = Reverse(Identity(MaxGenAlphabet))
    /\ B64Decode(gen_result).bytes = gen_permutation

(***************************************************************************)
(* Claims about construction.                                              *)
(***************************************************************************)
\* the seven checks of the claim, stated on the constructor's arguments; check 4 is
\* the verdict of the Base64 codec on the permutation parameter
CheckHolds(a, k) ==
    LET d == B64Decode(a.permutation)
        n == Len(a.alphabet)
    IN  CASE k = 1 -> n >= 2 /\ n <= 256
          [] k = 2 -> \A i, j \in 1..n : a.alphabet[i] = a.alphabet[j] => i = j
          [] k = 3 -> a.min_length > 0
          [] k = 4 -> d.ok
          [] k = 5 -> d.ok /\ Len(d.bytes) = n
          [] k = 6 -> d.ok /\ \A i, j \in 1..Len(d.bytes) : d.bytes[i] = d.bytes[j] => i = j
          [] k = 7 -> /\ d.ok
                      /\ 0 \in Range(d.bytes)
                      /\ n - 1 \in Range(d.bytes)
                      /\ \A x \in Range(d.bytes) : x >= 0 /\ x <= n - 1

FailedChecks(a) == {k \in 1..7 : ~CheckHolds(a, k)}

\* the check an error message belongs to
CheckOfError(what) ==
    CASE what = "Alphabet must have 2 to 256 characters" -> 1
      [] what = "Alphabet must have unique characters" -> 2
      [] what = "min_length must be greater than 0" -> 3
      [] what \in {"Invalid Base64 length", "Invalid padding in Base64",
                   "Invalid character in Base64"} -> 4
      [] what = "Permutation length must be equal to alphabet length" -> 5
      [] what = "Invalid permutation. All positions must be unique." -> 6
      [] what = "Invalid permutation. Invalid indices for used alphabet." -> 7
      [] OTHER -> 0

\* the number of checks the constructor has behind it at each of its statements
ChecksPassedAt ==
    [check_size |-> 0, check_unique |-> 1, check_min_length |-> 2,
     inverse_alphabet |-> 3, decode_permutation |-> 3, check_length |-> 4,
     check_permutation_unique |-> 5, check_indices |-> 6,
     inverse_permutation |-> 7, ready |-> 7]

NoInstance ==
    /\ alphabet_ = << >>
    /\ inverse_alphabet_ = << >>
    /\ permutation_ = << >>
    /\ inverse_permutation_ = << >>

DigitsFit(r) == r.oob = 0

C4_MinimumLength ==
    \A c \in Callers :
        (calls[c].op = "encode" /\ calls[c].pc = "encoded") =>
            Len(calls[c].encoded) >= min_length_

\* encode(0) returned under the largest min_length
C4_Witness ==
    /\ calls[1].pc = "encoded"
    /\ calls[1].value = U64Zero
    /\ min_length_ = MaxMinLength
    /\ Len(calls[1].encoded) = MaxMinLength

\* the string holds a character that is not in the configured alphabet
HasForeignChar(text) == \E i \in 1..Len(text) : \A j \in 1..Len(alphabet_) : text[i] # alphabet_[j]

IsU64(v) == Len(v) = 4 /\ \A k \in 1..4 : v[k] \in 0..65535

\* C8: decode rejection.  decode fails with CharacterNotInAlphabet iff its input holds
\* a character that is not in the configured alphabet; then no integer is returned; a
\* string of alphabet characters only, of any length, decodes to a 64-bit value.
C8_DecodeRejection ==
    \A c \in Callers :
        LET r == calls[c]
        IN  /\ r.pc = "thrown" => (HasForeignChar(r.text) /\ r.decoded = U64Zero)
            /\ (r.op = "decode" /\ r.pc \notin {"convert_from_base", "thrown"}) =>
                    ~HasForeignChar(r.text)
            /\ r.pc = "decoded" => IsU64(r.decoded)

\* a string that starts with an alphabet character and ends with '$' was rejected
C8_Witness ==
    /\ calls[1].pc = "thrown"
    /\ Len(calls[1].text) = MaxTextLen
    /\ calls[1].text[1] = alphabet_[1]
    /\ calls[1].text[MaxTextLen] = ForeignChar

EncodeRound ==
    <<"rotate_left", "permute_forward", "rotate_left", "cascade_forward", "rotate_left">>

DecodeRound ==
    <<"rotate_right", "cascade_backward", "rotate_right", "permute_backward",
      "rotate_right">>

\* the passes of the loop that have been completed are whole rounds
WholeRounds(r, round) == r.i > 0 => r.ops = round

\* C10 (amended): encode applies the sequence rotate-left, permute-forward,
\* rotate-left, cascade-forward, rotate-left exactly 3 * digit_count times, and
\* decode the sequence rotate-right, cascade-backward, rotate-right, permute-backward,
\* rotate-right exactly 3 * digit_count times, digit_count being the buffer length.
C10_RoundCountTripled ==
    \A c \in Callers :
        LET r == calls[c]
        IN  /\ r.pc = "convert_to_string" =>
                    (r.i = 3 * Len(r.buf) /\ WholeRounds(r, EncodeRound))
            /\ r.pc = "convert_to_value" =>
                    (r.i = 3 * Len(r.buf) /\ WholeRounds(r, DecodeRound))
            /\ r.pc \in {"rotate_left_1", "rotate_right_1"} => r.i < 3 * Len(r.buf)

\* a decode of a two-digit buffer has left its loop after six rounds
C10_Witness ==
    /\ calls[1].pc = "convert_to_value"
    /\ Len(calls[1].buf) = 2
    /\ calls[1].i = 6
    /\ calls[1].ops = DecodeRound

\* C10 (as claimed): encode and decode apply their sequence exactly digit_count times.
C10_RoundCountOnce ==
    \A c \in Callers :
        LET r == calls[c]
        IN  /\ r.pc = "convert_to_string" => r.i = Len(r.buf)
            /\ r.pc = "convert_to_value" => r.i = Len(r.buf)

\* C9 (as claimed): with one constructed instance shared by several callers, under
\* every interleaving the instance's alphabet, reverse lookup, permutation, inverse
\* permutation and min_length stay as constructed, each call works only on its own
\* digit buffer, no call fails to return, and calls with the same argument return
\* the same result.
C9_LockFreeSharing ==
    /\ alphabet_ = args.alphabet
    /\ min_length_ = args.min_length
    /\ inverse_alphabet_ = InverseAlphabet(args.alphabet)
    /\ permutation_ = B64Decode(args.permutation).bytes
    /\ inverse_permutation_ = InversePermutation(permutation_)
    /\ \A c \in Callers : calls[c].oob = 0 /\ calls[c].pc # "aborted"
    /\ \A c, d \in Callers :
            (/\ calls[c].pc = "encoded"
             /\ calls[d].pc = "encoded"
             /\ calls[c].value = calls[d].value) => calls[c].encoded = calls[d].encoded

(***************************************************************************)
(* Claims about convert_to_base.                                           *)
(***************************************************************************)
\* the number of base-b digits needed to represent v (one digit for 0)
DigitsNeeded(v, b) == Len(DigitsLE(v, b))

\* convert_to_base has just returned into encode: the loop has not run yet
BufferJustBuilt(r) == r.op = "encode" /\ r.pc = "rotate_left_1" /\ r.i = 0

\* C11 (as claimed): for every constructed instance with base b = alphabet size and
\* every unsigned 64-bit value v, 2^64 - 1 included, the digit buffer encode builds
\* has length exactly max(min_length, number of base-b digits of v), the conversion
\* writes only to indices inside the buffer, and the buffer read left to right as
\* base-b digits equals v.
C11_DigitBufferLength ==
    \A c \in Callers :
        BufferJustBuilt(calls[c]) =>
            /\ Len(calls[c].buf) = Max(min_length_, DigitsNeeded(calls[c].value, Base))
            /\ calls[c].oob = 0
            /\ ConvertToValue(calls[c].buf, Base) = calls[c].value

====
